---------------------------- MODULE Spec2Model ----------------------------
(***************************************************************************)
(* Model of the real-time transcription bridge of AI_Interview_System:     *)
(* interview/transcription_consumer.py (TranscriptionConsumer) and          *)
(* interview/consumers.py (SignalingConsumer), with the channel layer and   *)
(* the speech recognizer as their environment.                              *)
(*                                                                         *)
(* Two concurrency domains are modelled.  The asynchronous domain runs the  *)
(* consumer's handlers (connect, receive, disconnect, broadcast_transcript) *)
(* one at a time per connection, plus the tasks the code creates            *)
(* (handle_audio, one send_transcript per relayed transcript).  The thread  *)
(* domain runs start_transcription: the response loop in the worker thread  *)
(* and request_generator, which the RPC library drains concurrently.        *)
(***************************************************************************)
EXTENDS Naturals, Integers, Sequences, FiniteSets

\* ------------------------------------------------------------------ bounds
MaxFrames == 2      \* websocket frames received per transcription connection
MaxResponses == 2   \* recognizer responses consumed in Spec
MaxRoomResponses == 1    \* recognizer responses consumed in SpecRoom
MaxWorkerResponses == 3  \* recognizer responses consumed in SpecWorker
MaxSignals == 1     \* text frames received per signaling connection
MaxResults == 2     \* results carried by one recognizer response

\* ------------------------------------------------------------- connections
Sessions == {"s1", "s2"}          \* TranscriptionConsumer instances
Signalers == {"g1"}               \* SignalingConsumer instances
Conns == Sessions \cup Signalers  \* a connection's id is its channel name

TranscriptionRoom == "transcription_room"

SignalingRoom_Shared == "transcription_room"

SignalingRoom == "chat_interview_room"
GroupNames == {TranscriptionRoom, SignalingRoom}

Anonymous == "Anonymous"

\* The handshake's query string, as parse_qs returns it: username -> values.
QueryUsername(s) == IF s = "s1" THEN <<"alice">> ELSE <<>>

\* query_params.get("username", ["Anonymous"])[0]
ParseUsername(q) == IF q = <<>> THEN Anonymous ELSE q[1]

\* ------------------------------------------------------------------ frames
\* The Python values receive() is called with: None, a str or a bytes object,
\* each with its content as a sequence of codes.
PyNone == [type |-> "NoneType", val |-> <<>>]
Bytes(b) == [type |-> "bytes", val |-> b]
Str(t) == [type |-> "str", val |-> t]

EmptyBytes == Bytes(<<>>)
Chunk(n) == Bytes(<<n>>)
Ping == Str(<<1>>)

\* Python truthiness of receive's bytes_data argument.
Truthy(v) == v.type # "NoneType" /\ v.val # <<>>

\* ------------------------------------------------------------- transcripts
Space == " "

RECURSIVE LStrip(_)
LStrip(t) == IF t # <<>> /\ Head(t) = Space THEN LStrip(Tail(t)) ELSE t

RECURSIVE RStrip(_)
RStrip(t) ==
    IF t # <<>> /\ t[Len(t)] = Space THEN RStrip(SubSeq(t, 1, Len(t) - 1)) ELSE t

\* str.strip()
Strip(t) == RStrip(LStrip(t))

\* The transcripts the recognizer returns: empty, blank, and two different
\* texts with and without surrounding white space.
Texts ==
    {<<>>, <<" ">>, <<"a">>, <<" ", "a">>, <<"a", " ">>, <<"b">>, <<" ", "b", " ">>}

\* A recognizer result: the final flag and the transcripts of its alternatives,
\* best first.  A response carries zero or more results.
Results == [is_final : BOOLEAN, alternatives : {<<>>} \cup {<<t>> : t \in Texts}]
Responses == UNION {[1..n -> Results] : n \in 0..MaxResults}

Final(t) == [is_final |-> TRUE, alternatives |-> <<t>>]
Interim(t) == [is_final |-> FALSE, alternatives |-> <<t>>]

\* The responses the recognizer sends in the specification of the whole
\* system, where only what is relayed matters: two distinct finals, one of
\* them padded, an interim result and a response without results.
CoreResponses ==
    {<<>>, <<Final(<<"a">>)>>, <<Final(<<"b", " ">>)>>, <<Interim(<<"a">>)>>}

\* `result` when the response consumed last carried no result.
NoResult == [is_final |-> FALSE, alternatives |-> <<>>]

\* JSON text frames a signaling client sends.
SignalData == {[type |-> "ping"], [type |-> "offer"]}

VARIABLES
    conn,          \* per connection: where its connect/disconnect handling stands
    groups,        \* channel layer: group name -> set of registered channels
    inbox,         \* channel layer: per channel, the events published to it
    outbox,        \* per connection: the text frames sent to its client
    username,      \* per session: self.username
    audio_queue,   \* per session: self.audio_queue (asyncio.Queue)
    buffer,        \* per session: self.buffer (queue.Queue)
    stop_event,    \* per session: self.stop_event
    transcription_task, \* per session: the handle_audio task
    thread,        \* per session: the start_transcription thread
    generator,     \* per session: position of request_generator
    requests,      \* per session: audio requests emitted to the recognizer
    nresponses,    \* per session: responses consumed by the worker
    result,        \* per session: the result examined for the last response
    last_final_transcript, \* per session: the worker's dedup state
    finals,        \* per session: stripped transcripts of the finals examined
    relayed,       \* per session: transcripts handed to run_coroutine_threadsafe
    pending,       \* per session: send_transcript coroutines not yet published
    published,     \* per session: transcripts published to the group, in order
    received,      \* per connection: the frames received from the client
    state,         \* interview agent: the state object the client holds
    user_input,    \* interview agent: userInput of the last request
    nodes_run,     \* interview agent: graph nodes run by the last invoke
    status,        \* interview agent: HTTP status of the last response
    turns          \* interview agent: requests made so far

vars == <<conn, groups, inbox, outbox, username, audio_queue, buffer, stop_event,
          transcription_task, thread, generator, requests, nresponses, result,
          last_final_transcript, finals, relayed, pending, published, received,
          state, user_input, nodes_run, status, turns>>

asyncVars == <<conn, groups, inbox, outbox, username, audio_queue, buffer,
               stop_event, transcription_task, received>>
workerVars == <<thread, generator, requests, nresponses, result,
                last_final_transcript, finals, relayed, pending, published>>
agentVars == <<state, user_input, nodes_run, status, turns>>

\* __init__ of every consumer; nothing is connected yet.
Init ==
    /\ conn = [c \in Conns |-> "new"]
    /\ groups = [g \in GroupNames |-> {}]
    /\ inbox = [c \in Conns |-> <<>>]
    /\ outbox = [c \in Conns |-> <<>>]
    /\ username = [s \in Sessions |-> Anonymous]
    /\ audio_queue = [s \in Sessions |-> <<>>]
    /\ buffer = [s \in Sessions |-> <<>>]
    /\ stop_event = [s \in Sessions |-> FALSE]
    /\ transcription_task = [s \in Sessions |-> "none"]
    /\ thread = [s \in Sessions |-> "unstarted"]
    /\ generator = [s \in Sessions |-> "unstarted"]
    /\ requests = [s \in Sessions |-> <<>>]
    /\ nresponses = [s \in Sessions |-> 0]
    /\ result = [s \in Sessions |-> NoResult]
    /\ last_final_transcript = [s \in Sessions |-> <<>>]
    /\ finals = [s \in Sessions |-> <<>>]
    /\ relayed = [s \in Sessions |-> <<>>]
    /\ pending = [s \in Sessions |-> <<>>]
    /\ published = [s \in Sessions |-> <<>>]
    /\ received = [c \in Conns |-> <<>>]
    /\ state = PyNone
    /\ user_input = <<>>
    /\ nodes_run = <<>>
    /\ status = 0
    /\ turns = 0

\* ------------------------------------------------------- channel layer
GroupSend_One(group, event) ==
    inbox' = [c \in Conns |->
                IF groups[group] # {} /\ c = CHOOSE m \in groups[group] : TRUE
                THEN Append(inbox[c], event) ELSE inbox[c]]

\* channel_layer.group_send(group, event): the event is queued on the channel
\* of every connection registered in the group when the publish takes effect.
GroupSend(group, event) ==
    inbox' = [c \in Conns |->
                IF c \in groups[group] THEN Append(inbox[c], event) ELSE inbox[c]]

Dispatchable_Concurrent(c) == TRUE

\* The consumer's message loop awaits one handler at a time, and what a
\* handler left runnable on the event loop (the handle_audio task it created
\* or woke with audio_queue.put) runs before the loop takes the next message:
\* callbacks run in the order they were scheduled.
Dispatchable(c) ==
    c \in Sessions => transcription_task[c] \notin {"created", "woken"}

\* ------------------------------------------- TranscriptionConsumer, async
ConnectGroupAdd_StartFirst(s) ==
    /\ conn[s] = "new"
    /\ username' = [username EXCEPT ![s] = ParseUsername(QueryUsername(s))]
    /\ transcription_task' = [transcription_task EXCEPT ![s] = "created"]
    /\ thread' = [thread EXCEPT ![s] = "starting"]
    /\ groups' = [groups EXCEPT ![TranscriptionRoom] = @ \cup {s}]
    /\ conn' = [conn EXCEPT ![s] = "added"]
    /\ UNCHANGED <<inbox, outbox, audio_queue, buffer, stop_event, received>>
    /\ UNCHANGED <<generator, requests, nresponses, result,
                   last_final_transcript, finals, relayed, pending, published>>
    /\ UNCHANGED agentVars

\* connect, up to the end of `await group_add`.
ConnectGroupAdd(s) ==
    /\ conn[s] = "new"
    /\ username' = [username EXCEPT ![s] = ParseUsername(QueryUsername(s))]
    /\ groups' = [groups EXCEPT ![TranscriptionRoom] = @ \cup {s}]
    /\ conn' = [conn EXCEPT ![s] = "added"]
    /\ UNCHANGED <<inbox, outbox, audio_queue, buffer, stop_event,
                   transcription_task, received>>
    /\ UNCHANGED workerVars
    /\ UNCHANGED agentVars

\* connect, from accept() to its end: the bridging task is created and the
\* worker thread started.
ConnectAccept(s) ==
    /\ conn[s] = "added"
    /\ conn' = [conn EXCEPT ![s] = "open"]
    /\ transcription_task' = [transcription_task EXCEPT ![s] = "created"]
    /\ thread' = [thread EXCEPT ![s] = "starting"]
    /\ UNCHANGED <<groups, inbox, outbox, username, audio_queue, buffer,
                   stop_event, received>>
    /\ UNCHANGED <<generator, requests, nresponses, result,
                   last_final_transcript, finals, relayed, pending, published>>
    /\ UNCHANGED agentVars

Receive_Bounded(s, text_data, bytes_data) ==
    /\ conn[s] = "open"
    /\ Dispatchable(s)
    /\ Len(received[s]) < MaxFrames
    /\ buffer[s] = <<>>
    /\ received' = [received EXCEPT ![s] =
                      Append(@, [text_data |-> text_data, bytes_data |-> bytes_data])]
    /\ IF Truthy(bytes_data)
       THEN /\ audio_queue' = [audio_queue EXCEPT ![s] = Append(@, bytes_data)]
            /\ transcription_task' =
                 [transcription_task EXCEPT ![s] = IF @ = "get" THEN "woken" ELSE @]
       ELSE UNCHANGED <<audio_queue, transcription_task>>
    /\ UNCHANGED <<conn, groups, inbox, outbox, username, buffer, stop_event>>
    /\ UNCHANGED workerVars
    /\ UNCHANGED agentVars

Receive_EnqueueText(s, text_data, bytes_data) ==
    /\ conn[s] = "open"
    /\ Dispatchable(s)
    /\ Len(received[s]) < MaxFrames
    /\ received' = [received EXCEPT ![s] =
                      Append(@, [text_data |-> text_data, bytes_data |-> bytes_data])]
    /\ IF Truthy(bytes_data) \/ Truthy(text_data)
       THEN /\ audio_queue' = [audio_queue EXCEPT ![s] =
                   Append(@, IF Truthy(bytes_data) THEN bytes_data ELSE text_data)]
            /\ transcription_task' =
                 [transcription_task EXCEPT ![s] = IF @ = "get" THEN "woken" ELSE @]
       ELSE UNCHANGED <<audio_queue, transcription_task>>
    /\ UNCHANGED <<conn, groups, inbox, outbox, username, buffer, stop_event>>
    /\ UNCHANGED workerVars
    /\ UNCHANGED agentVars

\* receive(text_data, bytes_data): one websocket frame; a text frame arrives
\* with bytes_data = None, a binary frame with text_data = None.
Receive(s, text_data, bytes_data) ==
    /\ conn[s] = "open"
    /\ Dispatchable(s)
    /\ Len(received[s]) < MaxFrames
    /\ received' = [received EXCEPT ![s] =
                      Append(@, [text_data |-> text_data, bytes_data |-> bytes_data])]
    /\ IF Truthy(bytes_data)
       THEN /\ audio_queue' = [audio_queue EXCEPT ![s] = Append(@, bytes_data)]
            /\ transcription_task' =
                 [transcription_task EXCEPT ![s] = IF @ = "get" THEN "woken" ELSE @]
       ELSE UNCHANGED <<audio_queue, transcription_task>>
    /\ UNCHANGED <<conn, groups, inbox, outbox, username, buffer, stop_event>>
    /\ UNCHANGED workerVars
    /\ UNCHANGED agentVars

\* The clients send different audio: the chunks of s1 are numbered from 1,
\* those of any other session from 11.
ChunkBase(s) == IF s = "s1" THEN 0 ELSE 10

\* The frames a client can send next: a text frame, an empty binary frame, or
\* the next audio chunk (chunks are numbered in the order they are sent).
FrameInputs(s) ==
    {<<Ping, PyNone>>, <<PyNone, EmptyBytes>>,
     <<PyNone, Chunk(ChunkBase(s) + Len(received[s]) + 1)>>}

\* handle_audio, from where it is resumed until it suspends in
\* audio_queue.get() on an empty queue or leaves the loop.  A task woken in
\* get() completes that get and puts the item before it checks stop_event.
HandleAudio(s) ==
    /\ transcription_task[s] \in {"created", "woken"}
    /\ LET q == audio_queue[s]
           first == IF transcription_task[s] = "woken" /\ q # <<>>
                    THEN <<Head(q)>> ELSE <<>>
           rest == IF first = <<>> THEN q ELSE Tail(q)
       IN  IF stop_event[s]
           THEN /\ buffer' = [buffer EXCEPT ![s] = @ \o first]
                /\ audio_queue' = [audio_queue EXCEPT ![s] = rest]
                /\ transcription_task' = [transcription_task EXCEPT ![s] = "exited"]
           ELSE /\ buffer' = [buffer EXCEPT ![s] = @ \o q]
                /\ audio_queue' = [audio_queue EXCEPT ![s] = <<>>]
                /\ transcription_task' = [transcription_task EXCEPT ![s] = "get"]
    /\ UNCHANGED <<conn, groups, inbox, outbox, username, stop_event, received>>
    /\ UNCHANGED workerVars
    /\ UNCHANGED agentVars

DisconnectGroupDiscard_FlagFirst(s) ==
    /\ conn[s] = "open"
    /\ Dispatchable(s)
    /\ stop_event' = [stop_event EXCEPT ![s] = TRUE]
    /\ groups' = [groups EXCEPT ![TranscriptionRoom] = @ \ {s}]
    /\ conn' = [conn EXCEPT ![s] = "discarding"]
    /\ UNCHANGED <<inbox, outbox, username, audio_queue, buffer,
                   transcription_task, received>>
    /\ UNCHANGED workerVars
    /\ UNCHANGED agentVars

\* disconnect, up to the end of `await group_discard`.
DisconnectGroupDiscard(s) ==
    /\ conn[s] = "open"
    /\ Dispatchable(s)
    /\ groups' = [groups EXCEPT ![TranscriptionRoom] = @ \ {s}]
    /\ conn' = [conn EXCEPT ![s] = "discarding"]
    /\ UNCHANGED <<inbox, outbox, username, audio_queue, buffer, stop_event,
                   transcription_task, received>>
    /\ UNCHANGED workerVars
    /\ UNCHANGED agentVars

DisconnectStop_Join(s) ==
    /\ conn[s] = "discarding"
    /\ thread[s] \in {"ended", "failed", "crashed"}
    /\ stop_event' = [stop_event EXCEPT ![s] = TRUE]
    /\ transcription_task' =
         [transcription_task EXCEPT ![s] = IF @ = "exited" THEN @ ELSE "cancelled"]
    /\ conn' = [conn EXCEPT ![s] = "closed"]
    /\ UNCHANGED <<groups, inbox, outbox, username, audio_queue, buffer, received>>
    /\ UNCHANGED workerVars
    /\ UNCHANGED agentVars

\* disconnect, the rest: stop_event.set() and transcription_task.cancel().
\* The cancelled task gets CancelledError where it is suspended and moves
\* nothing more.
DisconnectStop(s) ==
    /\ conn[s] = "discarding"
    /\ stop_event' = [stop_event EXCEPT ![s] = TRUE]
    /\ transcription_task' =
         [transcription_task EXCEPT ![s] = IF @ = "exited" THEN @ ELSE "cancelled"]
    /\ conn' = [conn EXCEPT ![s] = "closed"]
    /\ UNCHANGED <<groups, inbox, outbox, username, audio_queue, buffer, received>>
    /\ UNCHANGED workerVars
    /\ UNCHANGED agentVars

\* send_transcript(text): the i-th pending relay coroutine's group_send takes
\* effect.  Each transcript has its own coroutine, suspended in the channel
\* layer's I/O; the layer completes them in no particular order.
SendTranscript(s, i) ==
    /\ i \in DOMAIN pending[s]
    /\ GroupSend(TranscriptionRoom,
                 [type |-> "broadcast_transcript", text |-> pending[s][i],
                  sender |-> username[s]])
    /\ published' = [published EXCEPT ![s] = Append(@, pending[s][i])]
    /\ pending' = [pending EXCEPT ![s] =
                     SubSeq(@, 1, i - 1) \o SubSeq(@, i + 1, Len(@))]
    /\ UNCHANGED <<conn, groups, outbox, username, audio_queue, buffer,
                   stop_event, transcription_task, received>>
    /\ UNCHANGED <<thread, generator, requests, nresponses, result,
                   last_final_transcript, finals, relayed>>
    /\ UNCHANGED agentVars

\* broadcast_transcript(event): the connection's message loop takes the next
\* event of its channel and sends the transcript frame to its client.
BroadcastTranscript(s) ==
    /\ conn[s] = "open"
    /\ Dispatchable(s)
    /\ inbox[s] # <<>>
    /\ Head(inbox[s]).type = "broadcast_transcript"
    /\ outbox' = [outbox EXCEPT ![s] =
                    Append(@, [type |-> "transcript", text |-> Head(inbox[s]).text,
                               sender |-> Head(inbox[s]).sender])]
    /\ inbox' = [inbox EXCEPT ![s] = Tail(@)]
    /\ UNCHANGED <<conn, groups, username, audio_queue, buffer, stop_event,
                   transcription_task, received>>
    /\ UNCHANGED workerVars
    /\ UNCHANGED agentVars

\* --------------------------------------------------- SignalingConsumer
\* connect, up to the end of `await group_add`.
SignalConnectGroupAdd(g) ==
    /\ conn[g] = "new"
    /\ groups' = [groups EXCEPT ![SignalingRoom] = @ \cup {g}]
    /\ conn' = [conn EXCEPT ![g] = "added"]
    /\ UNCHANGED <<inbox, outbox, username, audio_queue, buffer, stop_event,
                   transcription_task, received>>
    /\ UNCHANGED workerVars
    /\ UNCHANGED agentVars

\* connect, accept().
SignalConnectAccept(g) ==
    /\ conn[g] = "added"
    /\ conn' = [conn EXCEPT ![g] = "open"]
    /\ UNCHANGED <<groups, inbox, outbox, username, audio_queue, buffer,
                   stop_event, transcription_task, received>>
    /\ UNCHANGED workerVars
    /\ UNCHANGED agentVars

\* receive(text_data): data = json.loads(text_data); a ping is ignored, any
\* other message is published to the signaling group.
SignalReceive(g, data) ==
    /\ conn[g] = "open"
    /\ Len(received[g]) < MaxSignals
    /\ received' = [received EXCEPT ![g] = Append(@, data)]
    /\ IF data.type = "ping"
       THEN UNCHANGED inbox
       ELSE GroupSend(SignalingRoom, [type |-> "signal_message", message |-> data])
    /\ UNCHANGED <<conn, groups, outbox, username, audio_queue, buffer,
                   stop_event, transcription_task>>
    /\ UNCHANGED workerVars
    /\ UNCHANGED agentVars

\* signal_message(event): the message is sent to the client as it was received.
SignalMessage(g) ==
    /\ conn[g] = "open"
    /\ inbox[g] # <<>>
    /\ Head(inbox[g]).type = "signal_message"
    /\ outbox' = [outbox EXCEPT ![g] = Append(@, Head(inbox[g]).message)]
    /\ inbox' = [inbox EXCEPT ![g] = Tail(@)]
    /\ UNCHANGED <<conn, groups, username, audio_queue, buffer, stop_event,
                   transcription_task, received>>
    /\ UNCHANGED workerVars
    /\ UNCHANGED agentVars

\* disconnect: group_discard.
SignalDisconnect(g) ==
    /\ conn[g] = "open"
    /\ groups' = [groups EXCEPT ![SignalingRoom] = @ \ {g}]
    /\ conn' = [conn EXCEPT ![g] = "closed"]
    /\ UNCHANGED <<inbox, outbox, username, audio_queue, buffer, stop_event,
                   transcription_task, received>>
    /\ UNCHANGED workerVars
    /\ UNCHANGED agentVars

\* ------------------------------------------ start_transcription (thread)
\* The request generator is no longer drained once the call is over.
Dropped(g) == IF g \in {"check", "get"} THEN "dropped" ELSE g

\* Credentials.from_service_account_file or SpeechClient raises: these two
\* lines are outside the try block, so the thread dies with the exception.
WorkerCredentialsFail(s) ==
    /\ thread[s] = "starting"
    /\ thread' = [thread EXCEPT ![s] = "crashed"]
    /\ UNCHANGED <<generator, requests, nresponses, result,
                   last_final_transcript, finals, relayed, pending, published>>
    /\ UNCHANGED asyncVars
    /\ UNCHANGED agentVars

\* The client is built and streaming_recognize called: the RPC library starts
\* draining request_generator, the worker starts reading responses.
WorkerOpen(s) ==
    /\ thread[s] = "starting"
    /\ thread' = [thread EXCEPT ![s] = "streaming"]
    /\ generator' = [generator EXCEPT ![s] = "check"]
    /\ last_final_transcript' = [last_final_transcript EXCEPT ![s] = <<>>]
    /\ UNCHANGED <<requests, nresponses, result, finals, relayed, pending,
                   published>>
    /\ UNCHANGED asyncVars
    /\ UNCHANGED agentVars

GeneratorCheck_NoFlag(s) ==
    /\ generator[s] = "check"
    /\ generator' = [generator EXCEPT ![s] = "get"]
    /\ UNCHANGED <<thread, requests, nresponses, result, last_final_transcript,
                   finals, relayed, pending, published>>
    /\ UNCHANGED asyncVars
    /\ UNCHANGED agentVars

\* request_generator: `while not self.stop_event.is_set()`.
GeneratorCheck(s) ==
    /\ generator[s] = "check"
    /\ generator' = [generator EXCEPT ![s] = IF stop_event[s] THEN "exited" ELSE "get"]
    /\ UNCHANGED <<thread, requests, nresponses, result, last_final_transcript,
                   finals, relayed, pending, published>>
    /\ UNCHANGED asyncVars
    /\ UNCHANGED agentVars

GeneratorGet_Blocking(s) ==
    /\ generator[s] = "get"
    /\ buffer[s] # <<>>
    /\ generator' = [generator EXCEPT ![s] = "check"]
    /\ requests' = [requests EXCEPT ![s] = Append(@, Head(buffer[s]))]
    /\ buffer' = [buffer EXCEPT ![s] = Tail(@)]
    /\ UNCHANGED <<conn, groups, inbox, outbox, username, audio_queue,
                   stop_event, transcription_task, received>>
    /\ UNCHANGED <<thread, nresponses, result, last_final_transcript, finals,
                   relayed, pending, published>>
    /\ UNCHANGED agentVars

GeneratorGet_Lifo(s) ==
    /\ generator[s] = "get"
    /\ generator' = [generator EXCEPT ![s] = "check"]
    /\ IF buffer[s] # <<>>
       THEN /\ requests' = [requests EXCEPT ![s] = Append(@, buffer[s][Len(buffer[s])])]
            /\ buffer' = [buffer EXCEPT ![s] = SubSeq(@, 1, Len(@) - 1)]
       ELSE UNCHANGED <<requests, buffer>>
    /\ UNCHANGED <<conn, groups, inbox, outbox, username, audio_queue,
                   stop_event, transcription_task, received>>
    /\ UNCHANGED <<thread, nresponses, result, last_final_transcript, finals,
                   relayed, pending, published>>
    /\ UNCHANGED agentVars

\* request_generator: `chunk = self.buffer.get(timeout=1)`, then the yield of
\* the audio request, or queue.Empty after the timeout and `continue`.
GeneratorGet(s) ==
    /\ generator[s] = "get"
    /\ generator' = [generator EXCEPT ![s] = "check"]
    /\ IF buffer[s] # <<>>
       THEN /\ requests' = [requests EXCEPT ![s] = Append(@, Head(buffer[s]))]
            /\ buffer' = [buffer EXCEPT ![s] = Tail(@)]
       ELSE UNCHANGED <<requests, buffer>>
    /\ UNCHANGED <<conn, groups, inbox, outbox, username, audio_queue,
                   stop_event, transcription_task, received>>
    /\ UNCHANGED <<thread, nresponses, result, last_final_transcript, finals,
                   relayed, pending, published>>
    /\ UNCHANGED agentVars

\* Responses consumed so far, by all workers.
RECURSIVE SumOver(_, _)
SumOver(f, S) ==
    IF S = {} THEN 0
    ELSE LET x == CHOOSE y \in S : TRUE IN f[x] + SumOver(f, S \ {x})

TotalResponses == SumOver(nresponses, Sessions)

\* `if result.is_final`
IsFinal_Always(res) == TRUE

IsFinal(res) == res.is_final

\* `result.alternatives[0].transcript.strip()`
TopTranscript(res) == Strip(res.alternatives[1])

\* `if transcript and transcript != last_final_transcript`
ShouldRelay_NoDedup(transcript, last) == transcript # <<>>

ShouldRelay_EmptyToo(transcript, last) == transcript # last

ShouldRelay(transcript, last) == transcript # <<>> /\ transcript # last

WorkerConsume_Awaiting(s, response) ==
    /\ thread[s] = "streaming"
    /\ pending[s] = <<>>
    /\ nresponses' = [nresponses EXCEPT ![s] = @ + 1]
    /\ IF response = <<>>
       THEN \* `if not response.results: continue`
            /\ result' = [result EXCEPT ![s] = NoResult]
            /\ UNCHANGED <<thread, generator, last_final_transcript, finals,
                           relayed, pending>>
       ELSE LET res == response[1] IN
            /\ result' = [result EXCEPT ![s] = res]
            /\ IF ~IsFinal(res)
               THEN UNCHANGED <<thread, generator, last_final_transcript,
                                finals, relayed, pending>>
               ELSE IF res.alternatives = <<>>
               THEN \* alternatives[0] raises IndexError, caught by `except`
                    /\ thread' = [thread EXCEPT ![s] = "failed"]
                    /\ generator' = [generator EXCEPT ![s] = Dropped(@)]
                    /\ UNCHANGED <<last_final_transcript, finals, relayed, pending>>
               ELSE LET transcript == TopTranscript(res) IN
                    /\ finals' = [finals EXCEPT ![s] = Append(@, transcript)]
                    /\ UNCHANGED <<thread, generator>>
                    /\ IF ShouldRelay(transcript, last_final_transcript[s])
                       THEN /\ last_final_transcript' =
                                 [last_final_transcript EXCEPT ![s] = transcript]
                            /\ relayed' = [relayed EXCEPT ![s] = Append(@, transcript)]
                            /\ pending' = [pending EXCEPT ![s] = Append(@, transcript)]
                       ELSE UNCHANGED <<last_final_transcript, relayed, pending>>
    /\ UNCHANGED <<requests, published>>
    /\ UNCHANGED asyncVars
    /\ UNCHANGED agentVars

\* One iteration of `for response in responses`.
WorkerConsume(s, response) ==
    /\ thread[s] = "streaming"
    /\ nresponses' = [nresponses EXCEPT ![s] = @ + 1]
    /\ IF response = <<>>
       THEN \* `if not response.results: continue`
            /\ result' = [result EXCEPT ![s] = NoResult]
            /\ UNCHANGED <<thread, generator, last_final_transcript, finals,
                           relayed, pending>>
       ELSE LET res == response[1] IN
            /\ result' = [result EXCEPT ![s] = res]
            /\ IF ~IsFinal(res)
               THEN UNCHANGED <<thread, generator, last_final_transcript,
                                finals, relayed, pending>>
               ELSE IF res.alternatives = <<>>
               THEN \* alternatives[0] raises IndexError, caught by `except`
                    /\ thread' = [thread EXCEPT ![s] = "failed"]
                    /\ generator' = [generator EXCEPT ![s] = Dropped(@)]
                    /\ UNCHANGED <<last_final_transcript, finals, relayed, pending>>
               ELSE LET transcript == TopTranscript(res) IN
                    /\ finals' = [finals EXCEPT ![s] = Append(@, transcript)]
                    /\ UNCHANGED <<thread, generator>>
                    /\ IF ShouldRelay(transcript, last_final_transcript[s])
                       THEN /\ last_final_transcript' =
                                 [last_final_transcript EXCEPT ![s] = transcript]
                            /\ relayed' = [relayed EXCEPT ![s] = Append(@, transcript)]
                            /\ pending' = [pending EXCEPT ![s] = Append(@, transcript)]
                       ELSE UNCHANGED <<last_final_transcript, relayed, pending>>
    /\ UNCHANGED <<requests, published>>
    /\ UNCHANGED asyncVars
    /\ UNCHANGED agentVars

RecognizerEnd_Restart(s) ==
    /\ thread[s] = "streaming"
    /\ thread' = [thread EXCEPT ![s] = "starting"]
    /\ generator' = [generator EXCEPT ![s] = Dropped(@)]
    /\ UNCHANGED <<requests, nresponses, result, last_final_transcript, finals,
                   relayed, pending, published>>
    /\ UNCHANGED asyncVars
    /\ UNCHANGED agentVars

\* The recognizer closes the response sequence: the for loop ends and the
\* thread returns.
RecognizerEnd(s) ==
    /\ thread[s] = "streaming"
    /\ thread' = [thread EXCEPT ![s] = "ended"]
    /\ generator' = [generator EXCEPT ![s] = Dropped(@)]
    /\ UNCHANGED <<requests, nresponses, result, last_final_transcript, finals,
                   relayed, pending, published>>
    /\ UNCHANGED asyncVars
    /\ UNCHANGED agentVars

RecognizerError_Retry(s) ==
    /\ thread[s] = "streaming"
    /\ thread' = [thread EXCEPT ![s] = "starting"]
    /\ generator' = [generator EXCEPT ![s] = Dropped(@)]
    /\ UNCHANGED <<requests, nresponses, result, last_final_transcript, finals,
                   relayed, pending, published>>
    /\ UNCHANGED asyncVars
    /\ UNCHANGED agentVars

RecognizerError_Propagating(s) ==
    /\ thread[s] = "streaming"
    /\ thread' = [thread EXCEPT ![s] = "failed"]
    /\ generator' = [generator EXCEPT ![s] = Dropped(@)]
    /\ conn' = [conn EXCEPT ![s] = "closed"]
    /\ groups' = [groups EXCEPT ![TranscriptionRoom] = @ \ {s}]
    /\ UNCHANGED <<requests, nresponses, result, last_final_transcript, finals,
                   relayed, pending, published>>
    /\ UNCHANGED <<inbox, outbox, username, audio_queue, buffer, stop_event,
                   transcription_task, received>>
    /\ UNCHANGED agentVars

\* The call fails (it cannot be established, or breaks in mid-stream): the
\* exception is caught by `except Exception`, printed, and the thread returns.
RecognizerError(s) ==
    /\ thread[s] = "streaming"
    /\ thread' = [thread EXCEPT ![s] = "failed"]
    /\ generator' = [generator EXCEPT ![s] = Dropped(@)]
    /\ UNCHANGED <<requests, nresponses, result, last_final_transcript, finals,
                   relayed, pending, published>>
    /\ UNCHANGED asyncVars
    /\ UNCHANGED agentVars

\* ------------------------------------------------------ interview agent
MaxTurns == 8       \* requests to interview_turn
MaxQuestions == 2   \* largest numQuestions a first request asks for

\* Python's None as the value of current_stage.
None == "None"

\* Question texts: the empty string, the marker NO_FOLLOWUP, the n-th main
\* question, the follow-up to the n-th main question.
NoQuestion == [kind |-> "", n |-> 0]
NO_FOLLOWUP == [kind |-> "NO_FOLLOWUP", n |-> 0]
MainQuestion(n) == [kind |-> "main", n |-> n]
FollowUpQuestion(n) == [kind |-> "follow_up", n |-> n]

\* What the user types: nothing, a blank, a refusal, a capitalised consent.
UserInputs == {<<>>, <<" ">>, <<"n", "o">>, <<"O", "K">>}

NoResponse == <<"(No response provided)">>

\* str.lower() on the letters the inputs use.
LowerChar(c) ==
    CASE c = "O" -> "o" [] c = "K" -> "k" [] c = "N" -> "n"
      [] c = "Y" -> "y" [] c = "E" -> "e" [] c = "S" -> "s" [] OTHER -> c

Lower(text) == [i \in DOMAIN text |-> LowerChar(text[i])]

\* `word in text`
Contains(text, word) ==
    \E i \in 1..(Len(text) - Len(word) + 1) :
       SubSeq(text, i, i + Len(word) - 1) = word

ReadyWords ==
    {<<"y", "e", "s">>, <<"r", "e", "a", "d", "y">>, <<"o", "k">>,
     <<"s", "u", "r", "e">>, <<"f", "i", "n", "e">>}

\* The state interview_turn builds for a first request, with the
\* _is_follow_up_turn that invoke adds when it is missing.
InitialState(num_questions, input) ==
    [num_questions_total |-> num_questions,
     user_input |-> input,
     asked_questions |-> <<>>,
     interview_logs |-> <<>>,
     current_stage |-> None,
     last_question_asked |-> NoQuestion,
     pending_follow_up_q |-> NoQuestion,
     is_follow_up_turn |-> FALSE]

\* FollowUpGenerator.generate: the model's answer is NO_FOLLOWUP or a
\* follow-up question to the question just answered.
FollowUpGenerate(question, wants_follow_up) ==
    IF wants_follow_up THEN FollowUpQuestion(question.n) ELSE NO_FOLLOWUP

greeting_node(st) == [st EXCEPT !.current_stage = "name_capture"]

capture_name_node(st) == [st EXCEPT !.current_stage = "start_confirmation"]

ask_main_question_node(st) ==
    LET question == MainQuestion(Len(st.asked_questions) + 1)
    IN  [st EXCEPT !.current_stage = "awaiting_answer",
                   !.last_question_asked = question,
                   !.asked_questions = Append(@, question),
                   !.is_follow_up_turn = FALSE]

process_answer_node(st, follow_up_q) ==
    LET last_q == st.last_question_asked
        user_answer == Strip(st.user_input)
    IN  IF user_answer = <<>>
        THEN [st EXCEPT !.interview_logs =
                           Append(@, [question |-> last_q, answer |-> NoResponse]),
                        !.pending_follow_up_q = NO_FOLLOWUP]
        ELSE [st EXCEPT !.interview_logs =
                           Append(@, [question |-> last_q, answer |-> user_answer]),
                        !.pending_follow_up_q = follow_up_q]

ask_follow_up_node(st) ==
    [st EXCEPT !.current_stage = "awaiting_answer",
               !.last_question_asked = st.pending_follow_up_q,
               !.pending_follow_up_q = NO_FOLLOWUP,
               !.is_follow_up_turn = TRUE]

conclusion_node(st) == [st EXCEPT !.current_stage = "done"]

END == "__end__"

route_by_stage(st) ==
    LET stage == st.current_stage
    IN  IF stage \in {None, ""} THEN "greeting"
        ELSE IF stage = "name_capture" THEN "capture_name"
        ELSE IF stage = "start_confirmation"
        THEN IF \E word \in ReadyWords : Contains(Lower(st.user_input), word)
             THEN "ask_main_question"
             ELSE "conclusion"
        ELSE IF stage = "awaiting_answer" THEN "process_answer"
        ELSE END

route_after_processing_NoFlag(st) ==
    IF st.pending_follow_up_q # NO_FOLLOWUP THEN "ask_follow_up"
    ELSE IF Len(st.asked_questions) >= st.num_questions_total THEN "conclude"
    ELSE "ask_main_question"

route_after_processing(st) ==
    IF st.is_follow_up_turn
    THEN IF Len(st.asked_questions) >= st.num_questions_total
         THEN "conclude"
         ELSE "ask_main_question"
    ELSE IF st.pending_follow_up_q # NO_FOLLOWUP THEN "ask_follow_up"
    ELSE IF Len(st.asked_questions) >= st.num_questions_total THEN "conclude"
    ELSE "ask_main_question"

\* set_conditional_entry_point's mapping from the router's result to a node.
EntryPoints ==
    [k \in {"greeting", "capture_name", "ask_main_question", "process_answer",
            "conclude", END} |-> k]

\* The node functions by the names they were added to the graph under.
RunNode(name, st, follow_up_q) ==
    CASE name = "greeting" -> greeting_node(st)
      [] name = "capture_name" -> capture_name_node(st)
      [] name = "ask_main_question" -> ask_main_question_node(st)
      [] name = "process_answer" -> process_answer_node(st, follow_up_q)
      [] name = "ask_follow_up" -> ask_follow_up_node(st)
      [] name = "conclude" -> conclusion_node(st)

\* app.invoke: the compiled graph run on a state.  A router result that is
\* not a key of the entry mapping raises KeyError; every node but
\* process_answer ends the run, process_answer is followed by the node
\* route_after_processing names.
invoke(current_state, follow_up_q) ==
    LET entry == route_by_stage(current_state)
    IN  IF entry \notin DOMAIN EntryPoints
        THEN [error |-> TRUE, state |-> current_state, nodes |-> <<>>]
        ELSE IF EntryPoints[entry] = END
        THEN [error |-> FALSE, state |-> current_state, nodes |-> <<>>]
        ELSE IF EntryPoints[entry] = "process_answer"
        THEN LET processed == RunNode("process_answer", current_state, follow_up_q)
                 next == route_after_processing(processed)
             IN  [error |-> FALSE,
                  state |-> RunNode(next, processed, follow_up_q),
                  nodes |-> <<"process_answer", next>>]
        ELSE [error |-> FALSE,
              state |-> RunNode(EntryPoints[entry], current_state, follow_up_q),
              nodes |-> <<EntryPoints[entry]>>]

\* interview_turn: one POST.  A first request (no state) builds the initial
\* state from numQuestions; a later one carries the state of the previous
\* response.  An exception of the agent is answered with status 500 and no
\* state, so the client keeps the state it had.
interview_turn(input, num_questions, wants_follow_up) ==
    /\ turns < MaxTurns
    /\ LET current_state == IF state = PyNone
                            THEN InitialState(num_questions, input)
                            ELSE [state EXCEPT !.user_input = input]
           new_state == invoke(current_state,
                               FollowUpGenerate(current_state.last_question_asked,
                                                wants_follow_up))
       IN  /\ IF new_state.error
              THEN status' = 500 /\ UNCHANGED state
              ELSE status' = 200 /\ state' = new_state.state
           /\ nodes_run' = new_state.nodes
    /\ user_input' = input
    /\ turns' = turns + 1
    /\ UNCHANGED <<asyncVars, workerVars>>

\* ------------------------------------------------------ specifications
\* Spec: one transcription connection with everything it runs: the audio
\* path from receive to the recognizer, the worker, the relay and the
\* delivery of its own broadcasts.
Next ==
    \/ ConnectGroupAdd("s1")
    \/ ConnectAccept("s1")
    \/ \E f \in FrameInputs("s1") : Receive("s1", f[1], f[2])
    \/ HandleAudio("s1")
    \/ DisconnectGroupDiscard("s1")
    \/ DisconnectStop("s1")
    \/ \E i \in DOMAIN pending["s1"] : SendTranscript("s1", i)
    \/ BroadcastTranscript("s1")
    \/ WorkerCredentialsFail("s1")
    \/ WorkerOpen("s1")
    \/ GeneratorCheck("s1")
    \/ GeneratorGet("s1")
    \/ \E r \in CoreResponses :
          TotalResponses < MaxResponses /\ WorkerConsume("s1", r)
    \/ RecognizerEnd("s1")
    \/ RecognizerError("s1")

Spec == Init /\ [][Next]_vars

\* SpecRoom: the fan-out between connections.  Both transcription sessions
\* and a signaling connection connect, publish, receive and disconnect; the
\* clients send no audio, so the audio path stays idle.
NextRoom ==
    \/ \E s \in Sessions : ConnectGroupAdd(s)
    \/ \E s \in Sessions : ConnectAccept(s)
    \/ \E s \in Sessions : HandleAudio(s)
    \/ \E s \in Sessions : DisconnectGroupDiscard(s)
    \/ \E s \in Sessions : DisconnectStop(s)
    \/ \E s \in Sessions : \E i \in DOMAIN pending[s] : SendTranscript(s, i)
    \/ \E s \in Sessions : BroadcastTranscript(s)
    \/ \E g \in Signalers : SignalConnectGroupAdd(g)
    \/ \E g \in Signalers : SignalConnectAccept(g)
    \/ \E g \in Signalers : \E d \in SignalData : SignalReceive(g, d)
    \/ \E g \in Signalers : SignalMessage(g)
    \/ \E g \in Signalers : SignalDisconnect(g)
    \/ \E s \in Sessions : WorkerCredentialsFail(s)
    \/ \E s \in Sessions : WorkerOpen(s)
    \/ \E s \in Sessions : \E r \in CoreResponses :
          TotalResponses < MaxRoomResponses /\ WorkerConsume(s, r)
    \/ \E s \in Sessions : RecognizerEnd(s)
    \/ \E s \in Sessions : RecognizerError(s)

SpecRoom == Init /\ [][NextRoom]_vars

\* SpecWorker: the response loop of one worker on every response the
\* recognizer can send: zero to MaxResults results, each final or not, with
\* or without an alternative.
NextWorker ==
    \/ ConnectGroupAdd("s1")
    \/ ConnectAccept("s1")
    \/ HandleAudio("s1")
    \/ WorkerOpen("s1")
    \/ \E r \in Responses :
          TotalResponses < MaxWorkerResponses /\ WorkerConsume("s1", r)
    \/ RecognizerEnd("s1")

SpecWorker == Init /\ [][NextWorker]_vars

\* The recognizer closes the response sequence once the request sequence has
\* ended.
RecognizerClose(s) == generator[s] = "exited" /\ RecognizerEnd(s)

\* SpecFair: Spec with the scheduling its liveness rests on.  The operating
\* system keeps running the worker thread and the thread that drains
\* request_generator (whose timed get returns after a second at the latest),
\* and the recognizer closes a call whose requests have ended.
SpecFair ==
    /\ Spec
    /\ WF_vars(WorkerOpen("s1") \/ WorkerCredentialsFail("s1"))
    /\ WF_vars(GeneratorCheck("s1"))
    /\ WF_vars(GeneratorGet("s1"))
    /\ WF_vars(RecognizerClose("s1"))

\* SpecContain: a session whose worker fails next to a session that keeps
\* transcribing.  The client of s1 goes on sending frames and both
\* connections stay up; either worker can fail at any point.
NextContain ==
    \/ \E s \in Sessions : ConnectGroupAdd(s)
    \/ \E s \in Sessions : ConnectAccept(s)
    \/ \E f \in FrameInputs("s1") : Receive("s1", f[1], f[2])
    \/ \E s \in Sessions : HandleAudio(s)
    \/ \E s \in Sessions : \E i \in DOMAIN pending[s] : SendTranscript(s, i)
    \/ \E s \in Sessions : BroadcastTranscript(s)
    \/ \E s \in Sessions : WorkerCredentialsFail(s)
    \/ \E s \in Sessions : WorkerOpen(s)
    \/ \E s \in Sessions : \E r \in CoreResponses :
          TotalResponses < MaxRoomResponses /\ WorkerConsume(s, r)
    \/ \E s \in Sessions : RecognizerError(s)

SpecContain == Init /\ [][NextContain]_vars

\* SpecAudio: the audio path of two sessions side by side, from receive to
\* the requests sent to each session's recognizer, with disconnects.
NextAudio ==
    \/ \E s \in Sessions : ConnectGroupAdd(s)
    \/ \E s \in Sessions : ConnectAccept(s)
    \/ \E s \in Sessions : \E f \in FrameInputs(s) : Receive(s, f[1], f[2])
    \/ \E s \in Sessions : HandleAudio(s)
    \/ \E s \in Sessions : DisconnectGroupDiscard(s)
    \/ \E s \in Sessions : DisconnectStop(s)
    \/ \E s \in Sessions : WorkerOpen(s)
    \/ \E s \in Sessions : GeneratorCheck(s)
    \/ \E s \in Sessions : GeneratorGet(s)

SpecAudio == Init /\ [][NextAudio]_vars

\* SpecAgent: one interview, turn by turn: any numQuestions up to
\* MaxQuestions, any user input at every turn, any follow-up decision.
NextAgent ==
    \E input \in UserInputs : \E num_questions \in 0..MaxQuestions :
       \E wants_follow_up \in BOOLEAN :
          interview_turn(input, num_questions, wants_follow_up)

SpecAgent == Init /\ [][NextAgent]_vars

\* ================================================================ claims
RECURSIVE DedupConsecutive(_)
\* seq without the elements equal to their immediate predecessor.
DedupConsecutive(seq) ==
    IF Len(seq) <= 1 THEN seq
    ELSE LET front == SubSeq(seq, 1, Len(seq) - 1)
             last == seq[Len(seq)]
         IN  IF last = seq[Len(seq) - 1]
             THEN DedupConsecutive(front)
             ELSE Append(DedupConsecutive(front), last)

NonEmpty(seq) == SelectSeq(seq, LAMBDA t : t # <<>>)

\* C1 as stated: the transcripts handed to the relay are the stripped
\* transcripts of the finals the worker examined, with exactly the
\* immediately consecutive repeats removed.
C1_RelayedIsDedupOfFinals ==
    \A s \in Sessions : relayed[s] = DedupConsecutive(finals[s])

\* C1 amended: the transcripts handed to the relay are the stripped
\* transcripts of the finals the worker examined (the first result of each
\* response), without the empty ones, and then with exactly the immediately
\* consecutive repeats removed; A, B, A is relayed as A, B, A.
C1_RelayedIsDedupOfNonEmptyFinals ==
    \A s \in Sessions : relayed[s] = DedupConsecutive(NonEmpty(finals[s]))

\* The scenario of the specification: finals A, A, B are relayed as A, B.
C1_Witness ==
    /\ finals["s1"] = << <<"a">>, <<"a">>, <<"b">> >>
    /\ relayed["s1"] = << <<"a">>, <<"b">> >>

\* C5: a step that consumes a response whose examined result is not final
\* hands nothing to the relay, leaves last_final_transcript as it was and
\* keeps the worker running.
C5_NonFinalNeverRelayed ==
    [][\A s \in Sessions :
          (nresponses'[s] # nresponses[s] /\ ~result'[s].is_final)
          => /\ relayed'[s] = relayed[s]
             /\ pending'[s] = pending[s]
             /\ last_final_transcript'[s] = last_final_transcript[s]
             /\ thread'[s] = thread[s]]_vars

\* A non-final result with a new transcript was consumed after a relayed
\* final, and nothing more was relayed.
C5_Witness ==
    /\ nresponses["s1"] = 2
    /\ result["s1"] = Interim(<<"b">>)
    /\ relayed["s1"] = << <<"a">> >>
    /\ last_final_transcript["s1"] = <<"a">>

\* C6 as stated: a step that consumes a response whose examined result has
\* no alternatives, final or not, relays nothing and leaves the worker
\* consuming the response sequence.
C6_ZeroAlternativesSkipped ==
    [][\A s \in Sessions :
          (nresponses'[s] # nresponses[s] /\ result'[s].alternatives = <<>>)
          => /\ relayed'[s] = relayed[s]
             /\ thread'[s] = "streaming"]_vars

IsPrefix(p, q) == Len(p) <= Len(q) /\ SubSeq(q, 1, Len(p)) = p

\* C2 as stated: the transcripts of a session are published to the group in
\* the order the worker handed them to the relay.
C2_PublishedInRelayOrder ==
    \A s \in Sessions : IsPrefix(published[s], relayed[s])

\* C3 as stated: when the request loop has left on the cancel flag, every
\* chunk that was put into the buffer before has been emitted to the
\* recognizer, so none is left in the buffer.
C3_BufferDrainedAtExit ==
    \A s \in Sessions : generator[s] = "exited" => buffer[s] = <<>>

\* C9: a step that adds a chunk to a session's buffer is taken while the
\* connection is open (disconnect handling has not begun) and stop_event is
\* unset.
C9_BufferFedOnlyWhileOpen ==
    [][\A s \in Sessions :
          Len(buffer'[s]) > Len(buffer[s])
          => /\ conn[s] = "open" /\ conn'[s] = "open"
             /\ ~stop_event[s] /\ ~stop_event'[s]]_vars

\* Disconnect is suspended in group_discard, stop_event still unset, after
\* the chunks received were moved to the buffer; nothing waits in audio_queue.
C9_Witness ==
    /\ conn["s1"] = "discarding"
    /\ ~stop_event["s1"]
    /\ buffer["s1"] # <<>>
    /\ audio_queue["s1"] = <<>>
    /\ transcription_task["s1"] = "get"

Terminated(s) == thread[s] \in {"ended", "failed", "crashed"}

\* C4: once stop_event is set, a request loop that is polling leaves the
\* loop normally, unless the call itself is over first; after the flag is
\* set the loop starts no further timed get once it has re-checked the flag.
C4_CancelObserved ==
    /\ \A s \in Sessions :
          (stop_event[s] /\ generator[s] \in {"check", "get"})
          ~> (generator[s] = "exited" \/ thread[s] # "streaming")
    /\ [][\A s \in Sessions :
             (stop_event[s] /\ generator[s] = "check") => generator'[s] # "get"]_vars

\* The loop has left on the flag although no chunk ever reached the buffer.
C4_Witness ==
    /\ stop_event["s1"]
    /\ generator["s1"] = "exited"
    /\ thread["s1"] = "streaming"
    /\ requests["s1"] = <<>>
    /\ buffer["s1"] = <<>>

\* C10: after disconnect has set stop_event the worker thread eventually
\* returns, and so it does once the request loop has observed the flag; a
\* thread that has returned stays so.
C10_WorkerTerminates ==
    /\ \A s \in Sessions : stop_event[s] ~> Terminated(s)
    /\ \A s \in Sessions : (generator[s] = "exited") ~> Terminated(s)
    /\ [][\A s \in Sessions : Terminated(s) => thread'[s] = thread[s]]_vars

\* The worker returned because the recognizer closed the responses after the
\* request loop had left on the flag.
C10_Witness ==
    /\ stop_event["s1"]
    /\ generator["s1"] = "exited"
    /\ thread["s1"] = "ended"

Count(seq, t) == Cardinality({i \in DOMAIN seq : seq[i] = t})

\* The identity a session's handshake supplies.
SubscriberId(s) == IF QueryUsername(s) = <<>> THEN "Anonymous" ELSE QueryUsername(s)[1]

\* C7: every transcript handed to the relay is published once (it is pending
\* or has been published, never both and never twice); the publish puts one
\* event with the text and the originating session's identity on the channel
\* of every connection registered in the transcription group at that moment,
\* the originator included, and on no other; and a connection's handler sends
\* each event on as one transcript frame with that text and sender.
C7_RelayedReachesEverySubscriber ==
    /\ [](\A s \in Sessions : \A t \in Texts :
             Count(relayed[s], t) = Count(published[s], t) + Count(pending[s], t))
    /\ [][\A s \in Sessions :
             published'[s] # published[s]
             => LET t == published'[s][Len(published'[s])]
                    e == [type |-> "broadcast_transcript", text |-> t,
                          sender |-> SubscriberId(s)]
                IN  \A c \in Conns :
                       inbox'[c] = IF c \in groups[TranscriptionRoom]
                                   THEN Append(inbox[c], e) ELSE inbox[c]]_vars
    /\ [][\A c \in Sessions :
             outbox'[c] # outbox[c]
             => /\ inbox[c] # <<>>
                /\ inbox'[c] = Tail(inbox[c])
                /\ outbox'[c] = Append(outbox[c],
                                       [type |-> "transcript",
                                        text |-> Head(inbox[c]).text,
                                        sender |-> Head(inbox[c]).sender])]_vars

\* A transcript of s1 has been sent to the clients of both sessions.
C7_Witness ==
    /\ relayed["s1"] = << <<"a">> >>
    /\ outbox["s1"] = <<[type |-> "transcript", text |-> <<"a">>, sender |-> "alice"]>>
    /\ outbox["s2"] = <<[type |-> "transcript", text |-> <<"a">>, sender |-> "alice"]>>

\* C8: a signaling connection is never handed a transcript event and never
\* sends a transcript frame, a transcription session is never handed a
\* signaling message, the two groups hold only their own kind of connection,
\* and a transcript published by any session is put on the channel of every
\* transcription session registered at that moment.
C8_NoCrossGroupBroadcast ==
    /\ [](/\ groups[TranscriptionRoom] \subseteq Sessions
          /\ groups[SignalingRoom] \subseteq Signalers
          /\ \A g \in Signalers :
                /\ \A i \in DOMAIN inbox[g] : inbox[g][i].type = "signal_message"
                /\ \A i \in DOMAIN outbox[g] : outbox[g][i].type # "transcript"
          /\ \A s \in Sessions :
                /\ \A i \in DOMAIN inbox[s] : inbox[s][i].type = "broadcast_transcript"
                /\ \A i \in DOMAIN outbox[s] : outbox[s][i].type = "transcript")
    /\ [][\A s \in Sessions :
             published'[s] # published[s]
             => /\ \A t \in Sessions :
                      (conn[t] \in {"added", "open"})
                      => /\ Len(inbox'[t]) = Len(inbox[t]) + 1
                         /\ inbox'[t][Len(inbox'[t])].sender = SubscriberId(s)
                /\ \A g \in Signalers : inbox'[g] = inbox[g]]_vars
    /\ [][\A g \in Signalers :
             received'[g] # received[g]
             => \A s \in Sessions : inbox'[s] = inbox[s]]_vars

\* The signaling client got its signal back, and the other session got the
\* transcript the first one originated.
C8_Witness ==
    /\ outbox["g1"] = <<[type |-> "offer"]>>
    /\ published["s1"] = << <<"a">> >>
    /\ outbox["s2"] = <<[type |-> "transcript", text |-> <<"a">>, sender |-> "alice"]>>
    /\ inbox["s1"] = <<>> /\ inbox["s2"] = <<>>

WorkerFailed(s) == thread[s] \in {"crashed", "failed"}

\* C11: the step in which a session's worker fails (credentials, opening
\* the call, an error in mid-stream) changes nothing of the connection
\* handling of any session and nothing of another session's worker; and
\* after the failure the failing session's connection stays open and
\* registered, its receive still puts every audio frame on audio_queue and
\* the bridging task still moves it on, and a transcript published by any
\* session is still queued for it and sent to its client.
C11_WorkerFailureContained ==
    /\ [][\A s \in Sessions :
             (WorkerFailed(s)' /\ ~WorkerFailed(s))
             => /\ UNCHANGED asyncVars
                /\ \A t \in Sessions \ {s} :
                      /\ thread'[t] = thread[t] /\ generator'[t] = generator[t]
                      /\ relayed'[t] = relayed[t] /\ pending'[t] = pending[t]
                      /\ last_final_transcript'[t] = last_final_transcript[t]]_vars
    /\ [](\A s \in Sessions :
             WorkerFailed(s)
             => /\ conn[s] = "open"
                /\ s \in groups[TranscriptionRoom]
                /\ ~stop_event[s]
                /\ transcription_task[s] \in {"created", "get", "woken"})
    /\ [][\A s \in Sessions :
             (WorkerFailed(s) /\ received'[s] # received[s]
                /\ Truthy(received'[s][Len(received'[s])].bytes_data))
             => audio_queue'[s] =
                  Append(audio_queue[s], received'[s][Len(received'[s])].bytes_data)]_vars
    /\ [][\A s \in Sessions : \A t \in Sessions :
             (WorkerFailed(s) /\ published'[t] # published[t])
             => /\ Len(inbox'[s]) = Len(inbox[s]) + 1
                /\ inbox'[s][Len(inbox'[s])].text = published'[t][Len(published'[t])]]_vars
    /\ [](\A s \in Sessions :
             (WorkerFailed(s) /\ inbox[s] # <<>> /\ Dispatchable(s))
             => ENABLED BroadcastTranscript(s))
    /\ [](\A s \in Sessions :
             (WorkerFailed(s) /\ Dispatchable(s) /\ Len(received[s]) < MaxFrames)
             => ENABLED Receive(s, PyNone, Chunk(1)))

\* The worker of s1 died on its credentials; afterwards its connection took
\* two audio frames into the buffer and sent its client the transcript that
\* the worker of s2 produced.
C11_Witness ==
    /\ thread["s1"] = "crashed"
    /\ thread["s2"] = "streaming"
    /\ buffer["s1"] = <<Chunk(1), Chunk(2)>>
    /\ outbox["s1"] = <<[type |-> "transcript", text |-> <<"a">>,
                         sender |-> "Anonymous"]>>

\* C12: a worker that leaves the response loop has returned for good: the
\* step that takes it out of the loop on an error ends the thread, and from
\* then on the session opens no call, consumes no response and hands no
\* transcript to the relay, whatever its connection receives.
C12_NoRetryAfterError ==
    /\ [][\A s \in Sessions :
             (thread[s] = "streaming" /\ thread'[s] # "streaming")
             => thread'[s] \in {"failed", "ended"}]_vars
    /\ [][\A s \in Sessions :
             thread[s] = "failed"
             => /\ thread'[s] = "failed"
                /\ nresponses'[s] = nresponses[s]
                /\ relayed'[s] = relayed[s]
                /\ last_final_transcript'[s] = last_final_transcript[s]]_vars

\* The call failed after one transcript and one audio request; the frame
\* received next stays in the buffer.
C12_Witness ==
    /\ thread["s1"] = "failed"
    /\ relayed["s1"] = << <<"a">> >>
    /\ requests["s1"] = <<Chunk(1)>>
    /\ buffer["s1"] = <<Chunk(2)>>
    /\ conn["s1"] = "open"

\* C13: the only step that starts a worker thread of a session is the end of
\* its connect, so a session has a thread exactly from the moment its
\* connection is accepted, and a thread that has got past its start never
\* starts again: not on a receive, not on disconnect, not after it returned.
C13_OneWorkerPerSession ==
    /\ [][\A s \in Sessions :
             (thread'[s] = "starting" /\ thread[s] # "starting")
             => /\ thread[s] = "unstarted"
                /\ conn[s] = "added" /\ conn'[s] = "open"]_vars
    /\ [](\A s \in Sessions :
             thread[s] # "unstarted" <=> conn[s] \in {"open", "discarding", "closed"})
    /\ [][\A s \in Sessions :
             thread[s] \notin {"unstarted", "starting"}
             => thread'[s] \notin {"unstarted", "starting"}]_vars

\* A whole life: connect, two frames, disconnect, and the worker returned.
C13_Witness ==
    /\ conn["s1"] = "closed"
    /\ Len(received["s1"]) = 2
    /\ thread["s1"] = "ended"
    /\ generator["s1"] = "exited"

\* C14: once disconnect has completed the connection is out of the group,
\* stop_event is set and the bridging task is cancelled; stop_event is never
\* cleared; and the step that sets it is taken by a disconnect whose
\* group_discard has already removed the connection from the group.
C14_DisconnectTearsDown ==
    /\ [](\A s \in Sessions :
             conn[s] = "closed"
             => /\ s \notin groups[TranscriptionRoom]
                /\ stop_event[s]
                /\ transcription_task[s] = "cancelled")
    /\ [][\A s \in Sessions : stop_event[s] => stop_event'[s]]_vars
    /\ [][\A s \in Sessions :
             (~stop_event[s] /\ stop_event'[s])
             => /\ conn[s] = "discarding"
                /\ s \notin groups[TranscriptionRoom]
                /\ s \notin groups'[TranscriptionRoom]]_vars

\* Disconnect completed on a connection that had received one audio frame.
C14_Witness ==
    /\ conn["s1"] = "closed"
    /\ stop_event["s1"]
    /\ transcription_task["s1"] = "cancelled"
    /\ groups[TranscriptionRoom] = {}
    /\ received["s1"] = <<[text_data |-> PyNone, bytes_data |-> Chunk(1)]>>

\* C15: the step that creates the bridging task or starts the worker thread
\* is taken by a connect that has already registered the connection in the
\* group, and it leaves the connection accepted; so whenever a session has a
\* task or a thread it has been registered, a connection stays registered
\* from group_add until disconnect, and a transcript of a session is only
\* ever published after the session was registered.
C15_StartAfterRegistration ==
    /\ [][\A s \in Sessions :
             \/ transcription_task'[s] = transcription_task[s]
                  /\ thread'[s] = thread[s]
             \/ transcription_task[s] # "none" /\ thread[s] # "unstarted"
             \/ /\ conn[s] = "added" /\ conn'[s] = "open"
                /\ s \in groups[TranscriptionRoom]
                /\ s \in groups'[TranscriptionRoom]]_vars
    /\ [](\A s \in Sessions :
             (transcription_task[s] # "none" \/ thread[s] # "unstarted")
             => conn[s] \in {"open", "discarding", "closed"})
    /\ [](\A s \in Sessions :
             conn[s] \in {"added", "open"} => s \in groups[TranscriptionRoom])
    /\ [][\A s \in Sessions :
             (relayed'[s] # relayed[s] \/ published'[s] # published[s])
             => conn[s] \in {"open", "discarding", "closed"}]_vars

\* The session got its own first transcript while still connected.
C15_Witness ==
    /\ conn["s1"] = "open"
    /\ published["s1"] = << <<"a">> >>
    /\ nresponses["s1"] = 1
    /\ outbox["s1"] = <<[type |-> "transcript", text |-> <<"a">>, sender |-> "alice"]>>

\* The frame whose receive a step has just handled.
LastFrame(s) == received'[s][Len(received'[s])]

\* C16 as stated: every receive of a binary frame puts the frame on
\* audio_queue.
C16_BinaryFrameAlwaysEnqueued ==
    [][\A s \in Sessions :
          (received'[s] # received[s] /\ LastFrame(s).bytes_data.type = "bytes")
          => audio_queue'[s] = Append(audio_queue[s], LastFrame(s).bytes_data)]_vars

\* C16 amended: every receive of a binary frame that is not empty puts the
\* frame on audio_queue, whatever the queues hold and whatever the worker
\* does, and returns in the same step with the connection open; a receive
\* removes nothing from a queue; and an open connection whose message loop is
\* free can always take the next frame: receive waits neither for room nor
\* for the worker.
C16_NonEmptyBinaryFrameEnqueued ==
    /\ [][\A s \in Sessions :
             received'[s] # received[s]
             => /\ conn'[s] = "open"
                /\ buffer'[s] = buffer[s]
                /\ audio_queue'[s] =
                     IF LastFrame(s).bytes_data.type = "bytes"
                          /\ LastFrame(s).bytes_data.val # <<>>
                     THEN Append(audio_queue[s], LastFrame(s).bytes_data)
                     ELSE audio_queue[s]]_vars
    /\ [](\A s \in Sessions :
             (conn[s] = "open" /\ Dispatchable(s) /\ Len(received[s]) < MaxFrames)
             => ENABLED Receive(s, PyNone, Chunk(1)))

\* Two frames were accepted and bridged while the worker had not even opened
\* its call.
C16_Witness ==
    /\ thread["s1"] = "starting"
    /\ conn["s1"] = "open"
    /\ buffer["s1"] = <<Chunk(1), Chunk(2)>>
    /\ audio_queue["s1"] = <<>>

\* The payloads of the binary frames among the frames received.
BinaryFrames(frames) ==
    LET bin == SelectSeq(frames, LAMBDA f : f.bytes_data.type = "bytes")
    IN  [i \in DOMAIN bin |-> bin[i].bytes_data]

NonEmptyBinaryFrames(frames) ==
    SelectSeq(BinaryFrames(frames), LAMBDA b : b.val # <<>>)

\* What has entered a session's queues, in order: sent, buffered, queued.
Entered(s) == requests[s] \o buffer[s] \o audio_queue[s]

\* C17 as stated: what has entered a session's queues is exactly the binary
\* frames it received, and no audio request carries text.
C17_QueuesHoldBinaryFrames ==
    \A s \in Sessions :
       /\ Entered(s) = BinaryFrames(received[s])
       /\ \A i \in DOMAIN requests[s] : requests[s][i].type = "bytes"

\* C17 amended: what has entered a session's queues is exactly the binary
\* frames it received that are not empty, and no audio request carries text.
C17_QueuesHoldNonEmptyBinaryFrames ==
    \A s \in Sessions :
       /\ Entered(s) = NonEmptyBinaryFrames(received[s])
       /\ \A i \in DOMAIN requests[s] : requests[s][i].type = "bytes"

\* A text frame and then an audio frame were received; only the audio went
\* to the recognizer.
C17_Witness ==
    /\ received["s1"] = <<[text_data |-> Ping, bytes_data |-> PyNone],
                          [text_data |-> PyNone, bytes_data |-> Chunk(2)]>>
    /\ requests["s1"] = <<Chunk(2)>>

C20_RequestsPrefixOfBinaryFrames ==
    \A s \in Sessions : IsPrefix(requests[s], BinaryFrames(received[s]))

\* C20 amended: the audio requests a session's request generator has emitted
\* are a prefix of the non-empty binary frames received on that session's
\* connection, the chunks buffered and queued behind them are the frames
\* that follow in the same order, and no request of a session is a frame
\* that another session received.
C20_RequestsPrefixOfNonEmptyBinaryFrames ==
    /\ \A s \in Sessions :
          /\ IsPrefix(requests[s], NonEmptyBinaryFrames(received[s]))
          /\ IsPrefix(requests[s] \o buffer[s], NonEmptyBinaryFrames(received[s]))
    /\ \A s \in Sessions : \A t \in Sessions \ {s} :
          \A i \in DOMAIN requests[s] : \A j \in DOMAIN received[t] :
             requests[s][i] # received[t][j].bytes_data

\* Both sessions' recognizers got that session's two chunks, in order.
C20_Witness ==
    /\ requests["s1"] = <<Chunk(1), Chunk(2)>>
    /\ requests["s2"] = <<Chunk(11), Chunk(12)>>

\* What the results of one response hand to the relay when each of them is
\* examined in turn: every final with an alternative whose stripped text is
\* not empty and differs from the last one relayed.
RECURSIVE ExpectedRelay(_, _)
ExpectedRelay(results, last) ==
    IF results = <<>> THEN <<>>
    ELSE LET r == Head(results)
             t == IF r.alternatives = <<>> THEN <<>> ELSE Strip(r.alternatives[1])
         IN  IF r.is_final /\ t # <<>> /\ t # last
             THEN <<t>> \o ExpectedRelay(Tail(results), t)
             ELSE ExpectedRelay(Tail(results), last)

\* C21 as stated: whenever the worker consumes a response it hands to the
\* relay, once each and in order, the transcript of every final result of
\* the response that has an alternative and differs from the last transcript
\* relayed, whether it is the first result of the response or a later one:
\* in no state can a response be consumed with any other outcome.
C21_EveryFinalRelayedOnce ==
    \A s \in Sessions : \A r \in Responses :
       ~ENABLED (/\ WorkerConsume(s, r)
                 /\ relayed'[s] # relayed[s] \o ExpectedRelay(r, last_final_transcript[s]))

\* C22 as stated: no transcript of a session is published to the group once
\* the session's disconnect has completed.
C22_NoPublishAfterDisconnect ==
    [][\A s \in Sessions :
          published'[s] # published[s] => conn[s] # "closed"]_vars

\* C23: the step that consumes a final whose top transcript is empty after
\* stripping hands nothing to the relay, leaves last_final_transcript as it
\* was and keeps the worker in its loop; so after the finals A, empty, A the
\* relay has been handed A once.
C23_EmptyFinalIgnored ==
    /\ [][\A s \in Sessions :
             (/\ nresponses'[s] # nresponses[s]
              /\ result'[s].is_final
              /\ result'[s].alternatives # <<>>
              /\ Strip(result'[s].alternatives[1]) = <<>>)
             => /\ relayed'[s] = relayed[s]
                /\ pending'[s] = pending[s]
                /\ last_final_transcript'[s] = last_final_transcript[s]
                /\ thread'[s] = "streaming"]_vars
    /\ [](\A s \in Sessions :
             finals[s] = << <<"a">>, <<>>, <<"a">> >> => relayed[s] = << <<"a">> >>)

\* The finals A, blank, A were consumed and A was relayed once.
C23_Witness ==
    /\ finals["s1"] = << <<"a">>, <<>>, <<"a">> >>
    /\ relayed["s1"] = << <<"a">> >>
    /\ last_final_transcript["s1"] = <<"a">>
    /\ nresponses["s1"] = 3

\* A request has been handled in this step on a state at the given stage.
TurnAt(stage) ==
    /\ turns' # turns
    /\ state # PyNone
    /\ state.current_stage = stage

\* C24 as stated: a turn at stage start_confirmation whose input contains no
\* readiness word raises no error, runs the conclusion node and returns a
\* state with current_stage = done.
C24_NotReadyConcludes ==
    [][(/\ TurnAt("start_confirmation")
        /\ ~\E word \in ReadyWords : Contains(Lower(user_input'), word))
       => /\ status' = 200
          /\ nodes_run' = <<"conclude">>
          /\ state'.current_stage = "done"]_vars

\* C25: the turn that processes the answer to a follow-up goes on to a new
\* main question or to the conclusion, whatever the follow-up generator
\* proposes; so in the log every follow-up stands directly behind the main
\* question it follows up, and no main question has two.
C25_NoFollowUpAfterFollowUp ==
    /\ [][(TurnAt("awaiting_answer") /\ state.is_follow_up_turn)
          => /\ status' = 200
             /\ nodes_run' \in {<<"process_answer", "ask_main_question">>,
                                <<"process_answer", "conclude">>}
             /\ state'.last_question_asked.kind # "follow_up"
                  \/ state'.current_stage = "done"]_vars
    /\ [](state # PyNone
          => LET logs == state.interview_logs
             IN  /\ \A i \in DOMAIN logs :
                       logs[i].question.kind = "follow_up"
                       => /\ i > 1
                          /\ logs[i - 1].question = MainQuestion(logs[i].question.n)
                 /\ \A i \in DOMAIN logs : \A j \in DOMAIN logs :
                       (i # j /\ logs[i].question.kind = "follow_up")
                       => logs[i].question # logs[j].question)

\* The answer to a follow-up was processed, the generator proposed another
\* follow-up, and the second main question was asked instead.
C25_Witness ==
    /\ state # PyNone
    /\ nodes_run = <<"process_answer", "ask_main_question">>
    /\ state.pending_follow_up_q = FollowUpQuestion(1)
    /\ state.last_question_asked = MainQuestion(2)
    /\ Len(state.interview_logs) = 2

\* C26 as stated: the number of main questions asked never exceeds
\* num_questions_total, and once it has reached it the turn that processes
\* an answer without asking a follow-up concludes the interview.
C26_AskedWithinTotal ==
    /\ [](state # PyNone
          => Len(state.asked_questions) <= state.num_questions_total)
    /\ [][(/\ TurnAt("awaiting_answer")
           /\ Len(state.asked_questions) >= state.num_questions_total
           /\ nodes_run' # <<"process_answer", "ask_follow_up">>)
          => /\ nodes_run' = <<"process_answer", "conclude">>
             /\ state'.current_stage = "done"]_vars

\* Turns an interview of n main questions takes at most: greeting, name,
\* confirmation, and an answer and a follow-up answer per question asked.
TurnBound(n) == 3 + 2 * (IF n = 0 THEN 1 ELSE n)

\* C27 as stated: whatever the user types and the follow-up generator
\* decides, current_stage is done after the turns the interview can take at
\* most; and a turn on a state that is done runs no node and leaves
\* asked_questions, interview_logs and current_stage as they are.
C27_InterviewTerminates ==
    /\ [](state # PyNone /\ turns >= TurnBound(state.num_questions_total)
          => state.current_stage = "done")
    /\ [][TurnAt("done")
          => /\ nodes_run' = <<>>
             /\ state'.asked_questions = state.asked_questions
             /\ state'.interview_logs = state.interview_logs
             /\ state'.current_stage = "done"]_vars

====
